---------------------------- MODULE Spec2Model ----------------------------
(***************************************************************************)
(* A model of pscpy's lazy, selection-based array access layer:            *)
(*   adios2py.Variable / adios2py.File   (src/src/pscpy/adios2py)          *)
(*   psc.get_field_to_component          (src/src/pscpy/psc.py)            *)
(*   PscAdios2Array / PscAdios2Store     (src/src/pscpy/pscadios2.py)      *)
(*                                                                         *)
(* The adios2 engine and xarray's file manager are the environment.  What  *)
(* the model assumes of them is said where it is used.                     *)
(*                                                                         *)
(* Python sequences are 0-based, TLA+ sequences 1-based: axis d of the     *)
(* code is position d+1 here.  Index VALUES (starts, scalar indices, data  *)
(* indices) keep the code's 0-based numbering.                             *)
(***************************************************************************)
EXTENDS Integers, Sequences, FiniteSets, TLC

VARIABLES
    \* ---- indexing (Variable.__getitem__, PscAdios2Array._getitem) ----
    rawShape,    \* the on-disk shape the engine reports: adios2.Variable.shape()
    varShape,    \* Variable.shape, set by Variable.__init__
    arrShape,    \* PscAdios2Array.shape, set by its __init__ (<<>>: no such array)
    component,   \* PscAdios2Array._component (-1: no PscAdios2Array in play)
    res,         \* what the last indexing call did (see NoResult)
    \* ---- one File and the Variables it issued ----
    file,        \* the File object's fields (see FileInit)
    handles,     \* every Variable get_variable returned, in order of issue
    eng,         \* the engine's side: the session, and the calls that ended it
    last,        \* the last call on the File or on a Variable (see NoCall)
    \* ---- the field catalog (get_field_to_component, get_variables) ----
    species_names,   \* PscAdios2Store._species_names
    variable_names,  \* File.variable_names, in the engine's order
    cat,             \* what get_variables did (see NoCatalog)
    \* ---- stores, threads and the lock (PscAdios2Store, ADIOS2_LOCK) ----
    lock,        \* the thread that holds ADIOS2_LOCK (0: nobody)
    thr,         \* per thread: the operation it is in and what is left of it
    stores,      \* every PscAdios2Store.open so far, in order
    adios        \* the engine's process-wide state (see StoreInit)

idxvars == <<rawShape, varShape, arrShape, component, res>>

filevars == <<file, handles, eng, last>>

catvars == <<species_names, variable_names, cat>>

storevars == <<lock, thr, stores, adios>>

vars == <<rawShape, varShape, arrShape, component, res, file, handles, eng, last,
          species_names, variable_names, cat, lock, thr, stores, adios>>

-----------------------------------------------------------------------------
(* Bounds of the model. *)

MaxExtent == 2      \* extents of an axis are 0..MaxExtent
MaxRank == 2        \* raw variables of Variable.__getitem__ have 1..MaxRank axes

(* PSC's field output is "stored as 4-d array": three spatial axes and the *)
(* component axis.                                                         *)
FieldRank == 4

-----------------------------------------------------------------------------
(* Helpers on sequences. *)

\* s[::-1]
Reverse(s) == [i \in 1..Len(s) |-> s[Len(s) + 1 - i]]

\* All sequences over S of length lo..hi.
SeqsOf(S, lo, hi) == UNION {[1..n -> S] : n \in lo..hi}

Min(a, b) == IF a < b THEN a ELSE b

\* d[k] = v on a Python dict: a new key is added, an old one rebound.
DictSet(d, k, v) == [x \in DOMAIN d \cup {k} |-> IF x = k THEN v ELSE d[x]]

-----------------------------------------------------------------------------
(* Selectors: what a caller may put in the index tuple.                    *)
(*   [kind |-> "int", val |-> i]       a Python int                        *)
(*   [kind |-> "intlike", val |-> i]   an object int() converts (a float,  *)
(*                                     a digit string): int(arg) = i       *)
(*   [kind |-> "str"]                  a string int() rejects: ValueError  *)
(*   [kind |-> "none"]                 None: int(None) is a TypeError      *)
(*   [kind |-> "slice", start, stop, step]  each <<>> (None) or <<v>>      *)

None == <<>>

IntSel(i) == [kind |-> "int", val |-> i]
SliceSel(a, b, c) == [kind |-> "slice", start |-> a, stop |-> b, step |-> c]
FullSlice == SliceSel(None, None, None)

IntSamples == {-(MaxExtent + 1), -1, 0, 1, MaxExtent}

SliceSamples ==
    { FullSlice,
      SliceSel(<<0>>, <<1>>, None),
      SliceSel(<<1>>, <<1>>, None),
      SliceSel(<<1>>, <<MaxExtent>>, <<1>>),
      SliceSel(None, None, <<2>>),
      SliceSel(None, None, <<-1>>),
      SliceSel(None, None, <<0>>) }

Selectors ==
    {IntSel(i) : i \in IntSamples} \cup SliceSamples
      \cup {[kind |-> "intlike", val |-> 0], [kind |-> "str"], [kind |-> "none"]}

\* Python's slice.indices(length) for a slice whose step is not 0:
\* the (start, stop, step) the slice denotes on a sequence of that length.
SliceIndices(sl, length) ==
    LET step == IF sl.step = None THEN 1 ELSE sl.step[1]
        lower == IF step < 0 THEN -1 ELSE 0
        upper == IF step < 0 THEN length - 1 ELSE length
        Clamp(v) == IF v < 0
                    THEN (IF v + length < lower THEN lower ELSE v + length)
                    ELSE (IF v > upper THEN upper ELSE v)
        start == IF sl.start = None
                 THEN (IF step < 0 THEN upper ELSE lower)
                 ELSE Clamp(sl.start[1])
        stop == IF sl.stop = None
                THEN (IF step < 0 THEN lower ELSE upper)
                ELSE Clamp(sl.stop[1])
    IN [start |-> start, stop |-> stop, step |-> step]


-----------------------------------------------------------------------------
(* The engine's side of a read.  The data stored at an on-disk index is    *)
(* identified with that index, so that two reads agree on an element only  *)
(* if they fetched the same on-disk element.                               *)

RawValue(rawIdx) == rawIdx

\* adios2 accepts a selection that lies inside the variable's shape and
\* raises on any other.
SelectionInBounds(raw, start, count) ==
    /\ Len(start) = Len(raw) /\ Len(count) = Len(raw)
    /\ \A i \in 1..Len(raw) :
          start[i] >= 0 /\ count[i] >= 0 /\ start[i] + count[i] <= raw[i]

\* The multi-index, in row-major order over cnt, of flat position k.
RECURSIVE UnravelC(_, _)
UnravelC(k, cnt) ==
    IF Len(cnt) = 0 THEN <<>>
    ELSE LET n == Len(cnt)
         IN Append(UnravelC(k \div cnt[n], SubSeq(cnt, 1, n - 1)), k % cnt[n])

\* engine.get writes the selected block into the caller's buffer in the
\* on-disk (row-major) order of the selection: element k of the buffer.
EngineBufferAt(start, count, k) ==
    LET off == UnravelC(k, count)
    IN RawValue([i \in 1..Len(start) |-> start[i] + off[i]])

\* The flat position of multi-index j in a column-major array of shape shp.
RECURSIVE RavelF(_, _)
RavelF(j, shp) ==
    IF Len(j) = 0 THEN 0 ELSE j[1] + shp[1] * RavelF(Tail(j), Tail(shp))

\* The flat position of multi-index j in a row-major array of shape shp.
RECURSIVE RavelC(_, _)
RavelC(j, shp) ==
    IF Len(j) = 0 THEN 0
    ELSE LET n == Len(j)
         IN j[n] + shp[n] * RavelC(SubSeq(j, 1, n - 1), SubSeq(shp, 1, n - 1))

\* The multi-indices of an array of shape shp.
Indices(shp) ==
    {j \in [1..Len(shp) -> 0..MaxExtent] : \A i \in 1..Len(shp) : j[i] < shp[i]}

ArrayOrderC(j, shp) == RavelC(j, shp)

\* np.empty(arr_shape, order="F"): where element j of the array lives in
\* the buffer handed to engine.get.
ArrayOrder(j, shp) == RavelF(j, shp)

-----------------------------------------------------------------------------
(* Variable (adios2py).                                                    *)

\* Variable._shape: the logical shape is the on-disk shape reversed.
ShapeNotReversed(raw) == raw

VarShape(raw) == Reverse(raw)

\* Variable._set_selection: what is handed to set_selection.
SetSelectionArgs(start, count) ==
    [start |-> Reverse(start), count |-> Reverse(count)]

Raise(acc, exc) == [acc EXCEPT !.outcome = exc]

\* A scalar index is taken as it is: no check against the extent.
ScalarStart(idx, extent) == IF idx < 0 THEN idx + extent ELSE idx

\* The loop of Variable.__getitem__ over the supplied selectors, from
\* selector d on.  acc holds sel_start, sel_count, arr_shape and the
\* exception that ended the loop ("ok": none).
RECURSIVE SelectLoop(_, _, _, _)
SelectLoop(shape, args, d, acc) ==
    IF d > Len(args) THEN acc
    ELSE LET arg == args[d] IN
      IF arg.kind = "slice" THEN
          IF d > Len(shape) THEN Raise(acc, "IndexError")
          ELSE IF arg.step = <<0>> THEN Raise(acc, "ValueError")
          ELSE LET ind == SliceIndices(arg, shape[d]) IN
               IF ~(ind.stop > ind.start) THEN Raise(acc, "AssertionError")
               ELSE IF ind.step # 1 THEN Raise(acc, "AssertionError")
               ELSE SelectLoop(shape, args, d + 1,
                       [acc EXCEPT !.sel_start[d] = ind.start,
                                   !.sel_count[d] = ind.stop - ind.start,
                                   !.arr_shape = Append(@, ind.stop - ind.start)])
      ELSE IF arg.kind = "none" THEN Raise(acc, "TypeError")
      ELSE IF arg.kind = "str" THEN Raise(acc, "RuntimeError")
      ELSE IF d > Len(shape) THEN Raise(acc, "IndexError")
      ELSE SelectLoop(shape, args, d + 1,
              [acc EXCEPT !.sel_start[d] = ScalarStart(arg.val, shape[d]),
                          !.sel_count[d] = 1])

\* The second loop: axes without a selector are read in full.
DefaultAxes(shape, nargs, acc) ==
    [acc EXCEPT
       !.sel_start = [d \in 1..Len(shape) |-> IF d > nargs THEN 0 ELSE @[d]],
       !.sel_count = [d \in 1..Len(shape) |-> IF d > nargs THEN shape[d] ELSE @[d]],
       !.arr_shape = @ \o [k \in 1..(Len(shape) - Min(nargs, Len(shape))) |->
                              shape[Min(nargs, Len(shape)) + k]]]

NoResult ==
    [op |-> "none", args |-> <<>>, outcome |-> "none", calls |-> <<>>,
     sel_start |-> <<>>, sel_count |-> <<>>, arr_shape |-> <<>>, arr |-> <<>>]

\* Variable.__getitem__(args) on a handle whose _var is set (isOpen) or
\* None, whose shape attribute is shape, over the on-disk shape raw.
\* calls is the sequence of engine calls made, in order; sel_start and
\* sel_count are the per-logical-axis vectors handed to _set_selection.
GetItem(raw, shape, isOpen, args) ==
    LET zero == [d \in 1..Len(shape) |-> 0]
        acc0 == [outcome |-> "ok", sel_start |-> zero, sel_count |-> zero,
                 arr_shape |-> <<>>]
        sel == SelectLoop(shape, args, 1, acc0)
        full == DefaultAxes(shape, Len(args), sel)
        sent == SetSelectionArgs(full.sel_start, full.sel_count)
        setsel == [op |-> "set_selection", start |-> sent.start, count |-> sent.count]
        base == [NoResult EXCEPT !.op = "getitem", !.args = args]
    IN IF ~isOpen THEN [base EXCEPT !.outcome = "closed"]
       ELSE IF sel.outcome # "ok" THEN [base EXCEPT !.outcome = sel.outcome]
       ELSE IF ~SelectionInBounds(raw, sent.start, sent.count)
            THEN [base EXCEPT !.outcome = "EngineError", !.calls = <<setsel>>,
                              !.sel_start = full.sel_start,
                              !.sel_count = full.sel_count]
       ELSE [base EXCEPT
               !.outcome = "ok",
               !.calls = <<setsel, [op |-> "get"]>>,
               !.sel_start = full.sel_start,
               !.sel_count = full.sel_count,
               !.arr_shape = full.arr_shape,
               !.arr = [j \in Indices(full.arr_shape) |->
                          EngineBufferAt(sent.start, sent.count,
                                         ArrayOrder(j, full.arr_shape))]]

-----------------------------------------------------------------------------
(* The field catalog (psc.get_field_to_component) and its use by           *)
(* PscAdios2Store.get_variables.                                           *)

MaxSpecies == 2     \* at most this many species names
MaxVars == 2        \* at most this many variables in a container

Moments ==
    <<"rho", "jx", "jy", "jz", "px", "py", "pz",
      "txx", "tyy", "tzz", "txy", "tyz", "tzx">>

\* f"{moment}_{species_name}"
FieldName(moment, species_name) == moment \o "_" \o species_name

ComponentOffsetSwapped(moment_idx, species_idx) == species_idx + 13 * moment_idx

\* The component of moment moment_idx of species species_idx (both 0-based).
ComponentOffset(moment_idx, species_idx) == moment_idx + 13 * species_idx

\* The two loops over species and moments, from step n on (n counts the
\* assignments made so far), filling the dict d.
RECURSIVE MomentLoop(_, _, _)
MomentLoop(species, n, d) ==
    IF n >= Len(species) * Len(Moments) THEN d
    ELSE LET species_idx == n \div Len(Moments)
             moment_idx == n % Len(Moments)
         IN MomentLoop(species, n + 1,
                DictSet(d, FieldName(Moments[moment_idx + 1], species[species_idx + 1]),
                        ComponentOffset(moment_idx, species_idx)))

Jeh ==
    [f \in {"jx_ec", "jy_ec", "jz_ec", "ex_ec", "ey_ec", "ez_ec",
            "hx_fc", "hy_fc", "hz_fc"} |->
        CASE f = "jx_ec" -> 0 [] f = "jy_ec" -> 1 [] f = "jz_ec" -> 2
          [] f = "ex_ec" -> 3 [] f = "ey_ec" -> 4 [] f = "ez_ec" -> 5
          [] f = "hx_fc" -> 6 [] f = "hy_fc" -> 7 [] f = "hz_fc" -> 8]

Single(name) == [f \in {name} |-> 0]

CatalogNames == {"jeh", "dive", "rho", "d_rho", "div_j", "all_1st", "all_1st_cc"}

\* get_field_to_component(species_names): raw variable name -> (logical
\* field name -> component offset).
FieldToComponent(species) ==
    [v \in CatalogNames |->
        CASE v = "jeh" -> Jeh
          [] v \in {"dive", "rho", "d_rho", "div_j"} -> Single(v)
          [] OTHER -> MomentLoop(species, 0, <<>>)]

\* The inner loop of get_variables over the fields of one raw variable.
AddFields(variables, orig_varname, fields) ==
    [f \in DOMAIN variables \cup DOMAIN fields |->
        IF f \in DOMAIN fields THEN <<orig_varname, fields[f]>> ELSE variables[f]]

\* The outer loop of get_variables over the container's variable names,
\* from name n on.  field_to_component[orig_varname] is a KeyError for a
\* name the catalog does not hold.
RECURSIVE VariablesLoop(_, _, _, _)
VariablesLoop(ftc, names, n, variables) ==
    IF n > Len(names) THEN [outcome |-> "ok", variables |-> variables]
    ELSE IF names[n] \notin DOMAIN ftc
         THEN [outcome |-> "KeyError", variables |-> <<>>]
         ELSE VariablesLoop(ftc, names, n + 1,
                            AddFields(variables, names[n], ftc[names[n]]))

NoCatalog ==
    [op |-> "none", outcome |-> "none", variables |-> <<>>,
     field_to_component |-> <<>>]

\* The names a container may hold: some the catalog knows, one it does not.
OnDiskNames == {"jeh", "rho", "all_1st", "all_1st_cc", "n_1st_cc"}

SpeciesNames == {"e", "i"}

Distinct(q) == \A a, b \in 1..Len(q) : a # b => q[a] # q[b]

\* A store is open on a container with at least one variable.
CatInit ==
    /\ species_names \in SeqsOf(SpeciesNames, 0, MaxSpecies)
    /\ variable_names \in {q \in SeqsOf(OnDiskNames, 1, MaxVars) : Distinct(q)}
    /\ cat = NoCatalog

CatIdle ==
    /\ species_names = <<>>
    /\ variable_names = <<>>
    /\ cat = NoCatalog

\* PscAdios2Store.get_variables(): the logical fields, each with its raw
\* variable and component.
GetVariables ==
    /\ cat.op = "none"
    /\ LET ftc == FieldToComponent(species_names)
           r == VariablesLoop(ftc, variable_names, 1, <<>>)
       IN cat' = [op |-> "get_variables", outcome |-> r.outcome,
                  variables |-> r.variables, field_to_component |-> ftc]
    /\ UNCHANGED <<species_names, variable_names, idxvars, filevars, storevars>>

CatNext == GetVariables

KnownNames(names) == {n \in 1..Len(names) : names[n] \in CatalogNames}

\* C9 as stated: get_variables raises nothing; a container variable the
\* catalog does not hold adds no field, and every field of every other
\* container variable is returned.
C9_UnknownVariablesOmitted ==
    cat.op = "get_variables" =>
        /\ cat.outcome = "ok"
        /\ \A n \in KnownNames(variable_names) :
              \A f \in DOMAIN cat.field_to_component[variable_names[n]] :
                  f \in DOMAIN cat.variables
        /\ \A f \in DOMAIN cat.variables : cat.variables[f][1] \in CatalogNames

\* For distinct species names, field "{moment}_{species}" of both moment
\* variables is at moment index + 13 * species index; there are 13 moments.
OffsetFormula ==
    /\ Len(Moments) = 13
    /\ Distinct(species_names) =>
         \A v \in {"all_1st", "all_1st_cc"} :
           \A si \in 1..Len(species_names), mi \in 1..Len(Moments) :
             LET f == FieldName(Moments[mi], species_names[si])
             IN /\ f \in DOMAIN cat.field_to_component[v]
                /\ cat.field_to_component[v][f] = (mi - 1) + 13 * (si - 1)

\* C10 as stated: with species ["e", "i"], "rho_i" is at offset 13 and
\* "txy_e" at offset 9, each moment index + 13 * species index.
C10_AsStated ==
    cat.op = "get_variables" =>
        /\ OffsetFormula
        /\ species_names = <<"e", "i">> =>
             /\ cat.field_to_component["all_1st"]["rho_i"] = 13
             /\ cat.field_to_component["all_1st"]["txy_e"] = 9

\* C10 (amended): with species ["e", "i"], "rho_i" is at offset 13 and
\* "txy_e" at offset 10 (txy is moment 10; offset 9 is "tzz_e"), each
\* moment index + 13 * species index.
C10_OffsetFormula ==
    cat.op = "get_variables" =>
        /\ OffsetFormula
        /\ species_names = <<"e", "i">> =>
             /\ cat.field_to_component["all_1st"]["rho_i"] = 13
             /\ cat.field_to_component["all_1st"]["txy_e"] = 10
             /\ cat.field_to_component["all_1st"]["tzz_e"] = 9

\* The catalog for ["e", "i"] was built and resolved against a container
\* that holds the moment variable.
C10_Witness ==
    /\ cat.op = "get_variables"
    /\ cat.outcome = "ok"
    /\ species_names = <<"e", "i">>
    /\ variable_names = <<"all_1st">>
    /\ cat.variables["rho_i"] = <<"all_1st", 13>>
    /\ cat.variables["txy_e"] = <<"all_1st", 10>>

-----------------------------------------------------------------------------
(* Stores, threads and ADIOS2_LOCK (pscadios2.py).                         *)
(*                                                                         *)
(* A thread runs one operation at a time.  An operation is the sequence of *)
(* its steps, in program order: a call into the engine (named after the    *)
(* adios2 call), "acquire" and "release" of the store's lock (the `with    *)
(* self.datastore.lock` of _getitem), and "return".  A call into the       *)
(* engine takes time: it begins, and later ends, and other threads run in  *)
(* between.                                                                *)
(*                                                                         *)
(* Of xarray: CachingFileManager(File, filename, mode=mode) is given no    *)
(* lock, so whatever it locks with is its own and not ADIOS2_LOCK; it      *)
(* opens its File on the first acquire and keeps it; every manager has a   *)
(* cache key of its own, so two managers never share a File; it closes its *)
(* File when the manager is collected.  AbstractDataStore.close, which     *)
(* PscAdios2Store inherits, does nothing.                                  *)
(* Of adios2: declare_io raises for a name that is declared already.       *)

MaxStores == 2      \* PscAdios2Store.open is called at most this often

Threads == {1, 2}
Paths == {"a.bp", "b.bp"}

\* The attributes RunInfo looks for that the container at a path holds.
HasLength(path) == path = "a.bp"
HasCorner(path) == FALSE

\* Variable.__init__: name, shape and type are asked of the adios2 variable.
VariableInitCalls == <<"var_name", "var_shape", "var_type">>

\* File.get_variable(name)
GetVariableCalls == <<"inquire_variable">> \o VariableInitCalls

\* File.get_attribute(name)
GetAttributeCalls == <<"inquire_attribute", "attr_data">>

\* File.__init__
FileInitCalls ==
    <<"declare_io", "open", "available_variables", "available_attributes">>

\* RunInfo.__init__ with no length or corner given: the shape of the first
\* variable, then the attributes "length" and "corner" where the container
\* holds them.
RunInfoCalls(path) ==
    GetVariableCalls
      \o (IF HasLength(path) THEN GetAttributeCalls ELSE <<>>)
      \o (IF HasCorner(path) THEN GetAttributeCalls ELSE <<>>)

\* PscAdios2Store.open: the manager is made, and PscAdios2Store.__init__
\* builds RunInfo(self.ds): the first acquire opens the File.  No step
\* takes the store's lock.
StoreOpenProgram(path) == FileInitCalls \o RunInfoCalls(path) \o <<"return">>

\* PscAdios2Array.__init__: get_array() with needs_lock = True, which is
\* the manager's lock, held only while the cached File is looked up.
ArrayInitProgram == GetVariableCalls \o <<"return">>

\* PscAdios2Array._getitem: under the store's lock, get_array and the read.
GetItemProgram ==
    <<"acquire">> \o GetVariableCalls \o <<"set_selection", "get">>
      \o <<"release", "return">>

\* PscAdios2Store.get_attrs: get_attribute for each attribute name.
GetAttrsProgram(path) ==
    (IF HasLength(path) THEN GetAttributeCalls ELSE <<>>) \o <<"return">>

\* The manager is collected: File.close() closes the engine and removes
\* the io.
CollectProgram == <<"close", "remove_io", "return">>

NotCalls == {"acquire", "release", "return"}

Idle == [op |-> "idle", s |-> 0, prog |-> <<>>, inCall |-> FALSE]

\* No store is open; nothing is declared in the engine.
\* adios: ios, the declared io names (one per path: f"io-{filename}");
\* opens and closes, how often the engine was opened and closed per path.
StoreInit ==
    /\ lock = 0
    /\ thr = [t \in Threads |-> Idle]
    /\ stores = <<>>
    /\ adios = [ios |-> {}, opens |-> [q \in Paths |-> 0],
                closes |-> [q \in Paths |-> 0]]

StoreIdle ==
    /\ lock = 0
    /\ thr = <<>>
    /\ stores = <<>>
    /\ adios = [ios |-> {}, opens |-> <<>>, closes |-> <<>>]

\* Whether some thread is in an operation on store s.
InUse(s) == \E t \in Threads : thr[t].s = s /\ thr[t].op # "idle"

\* Whether an open, uncollected store on the path exists.
LiveOn(path) ==
    \E s \in 1..Len(stores) : stores[s].path = path /\ stores[s].state = "open"

\* psc_open_dataset / PscAdios2Store.open(filename, ...) with the default
\* lock: a new store with a manager of its own.  shared: a dataset on the
\* same path is open at this moment.
StoreOpen(t) ==
    /\ thr[t].op = "idle"
    /\ Len(stores) < MaxStores
    /\ \E path \in Paths :
         /\ stores' = Append(stores, [path |-> path, state |-> "opening",
                                      shared |-> LiveOn(path),
                                      dsClosed |-> FALSE])
         /\ thr' = [thr EXCEPT ![t] = [op |-> "open", s |-> Len(stores) + 1,
                                       prog |-> StoreOpenProgram(path),
                                       inCall |-> FALSE]]
    /\ UNCHANGED <<lock, adios>>
    /\ UNCHANGED <<idxvars, filevars, catvars>>

\* get_variables -> open_store_variable -> PscAdios2Array(...)
ArrayInitOp(t) ==
    /\ thr[t].op = "idle"
    /\ \E s \in 1..Len(stores) :
         /\ stores[s].state = "open"
         /\ thr' = [thr EXCEPT ![t] = [op |-> "array_init", s |-> s,
                                       prog |-> ArrayInitProgram,
                                       inCall |-> FALSE]]
    /\ UNCHANGED <<lock, stores, adios>>
    /\ UNCHANGED <<idxvars, filevars, catvars>>

\* Indexing a PscAdios2Array of the store.
ArrayGetItemOp(t) ==
    /\ thr[t].op = "idle"
    /\ \E s \in 1..Len(stores) :
         /\ stores[s].state = "open"
         /\ thr' = [thr EXCEPT ![t] = [op |-> "getitem", s |-> s,
                                       prog |-> GetItemProgram,
                                       inCall |-> FALSE]]
    /\ UNCHANGED <<lock, stores, adios>>
    /\ UNCHANGED <<idxvars, filevars, catvars>>

\* store.get_attrs()
GetAttrsOp(t) ==
    /\ thr[t].op = "idle"
    /\ \E s \in 1..Len(stores) :
         /\ stores[s].state = "open"
         /\ thr' = [thr EXCEPT ![t] = [op |-> "get_attrs", s |-> s,
                                       prog |-> GetAttrsProgram(stores[s].path),
                                       inCall |-> FALSE]]
    /\ UNCHANGED <<lock, stores, adios>>
    /\ UNCHANGED <<idxvars, filevars, catvars>>

\* ds.close(): the close callback is store.close, which does nothing.
DatasetClose(t) ==
    /\ thr[t].op = "idle"
    /\ \E s \in 1..Len(stores) :
         /\ stores[s].state = "open"
         /\ ~stores[s].dsClosed
         /\ stores' = [stores EXCEPT ![s].dsClosed = TRUE]
    /\ UNCHANGED <<lock, thr, adios>>
    /\ UNCHANGED <<idxvars, filevars, catvars>>

\* The dataset, its arrays and its store are dropped: the manager is
\* collected in the thread that dropped the last of them.
StoreCollect(t) ==
    /\ thr[t].op = "idle"
    /\ \E s \in 1..Len(stores) :
         /\ stores[s].state = "open"
         /\ ~InUse(s)
         /\ stores' = [stores EXCEPT ![s].state = "collecting"]
         /\ thr' = [thr EXCEPT ![t] = [op |-> "collect", s |-> s,
                                       prog |-> CollectProgram,
                                       inCall |-> FALSE]]
    /\ UNCHANGED <<lock, adios>>
    /\ UNCHANGED <<idxvars, filevars, catvars>>

\* `with self.datastore.lock`: entered when the lock is free.
AcquireLock(t) ==
    /\ thr[t].prog # <<>> /\ Head(thr[t].prog) = "acquire"
    /\ lock = 0
    /\ lock' = t
    /\ thr' = [thr EXCEPT ![t].prog = Tail(@)]
    /\ UNCHANGED <<stores, adios>>
    /\ UNCHANGED <<idxvars, filevars, catvars>>

ReleaseLock(t) ==
    /\ thr[t].prog # <<>> /\ Head(thr[t].prog) = "release"
    /\ lock' = 0
    /\ thr' = [thr EXCEPT ![t].prog = Tail(@)]
    /\ UNCHANGED <<stores, adios>>
    /\ UNCHANGED <<idxvars, filevars, catvars>>

\* The thread enters the engine.
BeginCall(t) ==
    /\ thr[t].prog # <<>> /\ Head(thr[t].prog) \notin NotCalls
    /\ ~thr[t].inCall
    /\ thr' = [thr EXCEPT ![t].inCall = TRUE]
    /\ UNCHANGED <<lock, stores, adios>>
    /\ UNCHANGED <<idxvars, filevars, catvars>>

\* The engine call returns (or raises): declare_io of a declared name
\* raises, and the exception ends PscAdios2Store.open.
EndCall(t) ==
    /\ thr[t].inCall
    /\ LET call == Head(thr[t].prog)
           s == thr[t].s
           path == stores[s].path
       IN IF call = "declare_io" /\ path \in adios.ios
          THEN /\ stores' = [stores EXCEPT ![s].state = "failed"]
               /\ thr' = [thr EXCEPT ![t] = Idle]
               /\ UNCHANGED adios
          ELSE /\ thr' = [thr EXCEPT ![t].prog = Tail(@), ![t].inCall = FALSE]
               /\ adios' =
                    CASE call = "declare_io" ->
                           [adios EXCEPT !.ios = @ \cup {path}]
                      [] call = "open" ->
                           [adios EXCEPT !.opens[path] = @ + 1]
                      [] call = "close" ->
                           [adios EXCEPT !.closes[path] = @ + 1]
                      [] call = "remove_io" ->
                           [adios EXCEPT !.ios = @ \ {path}]
                      [] OTHER -> adios
               /\ UNCHANGED stores
    /\ UNCHANGED lock
    /\ UNCHANGED <<idxvars, filevars, catvars>>

\* The operation returns to its caller.
Return(t) ==
    /\ thr[t].prog # <<>> /\ Head(thr[t].prog) = "return"
    /\ thr' = [thr EXCEPT ![t] = Idle]
    /\ stores' =
         CASE thr[t].op = "open" -> [stores EXCEPT ![thr[t].s].state = "open"]
           [] thr[t].op = "collect" ->
                [stores EXCEPT ![thr[t].s].state = "collected"]
           [] OTHER -> stores
    /\ UNCHANGED <<lock, adios>>
    /\ UNCHANGED <<idxvars, filevars, catvars>>

StoreNext ==
    \E t \in Threads :
        \/ StoreOpen(t)
        \/ ArrayInitOp(t)
        \/ ArrayGetItemOp(t)
        \/ GetAttrsOp(t)
        \/ DatasetClose(t)
        \/ StoreCollect(t)
        \/ AcquireLock(t)
        \/ ReleaseLock(t)
        \/ BeginCall(t)
        \/ EndCall(t)
        \/ Return(t)

\* The calls into the engine the claim names.
EngineCalls ==
    {"open", "available_variables", "available_attributes", "inquire_variable",
     "inquire_attribute", "set_selection", "get", "close"}

InEngine == {t \in Threads : thr[t].inCall /\ Head(thr[t].prog) \in EngineCalls}

\* C7 as stated: with the default lock, no two calls into the engine (open,
\* catalog query, inquire_variable, inquire_attribute, set_selection, get,
\* close) execute at the same time, whatever the threads do.
C7_EngineMutualExclusion == Cardinality(InEngine) <= 1

\* C8 as stated: a dataset opened on a path on which another dataset is
\* open is backed by the engine open of that one: the open succeeds, and
\* the engine is open once on that path (one more open than closes).
C8_SessionRefCounting ==
    \A s \in 1..Len(stores) :
        (stores[s].shared /\ stores[s].state # "opening")
            => /\ stores[s].state # "failed"
               /\ adios.opens[stores[s].path] = adios.closes[stores[s].path] + 1

-----------------------------------------------------------------------------
(* File (adios2py): one open container and the Variables it issued.        *)

MaxHandles == 3     \* get_variable is called at most this often

\* The variables and attributes of the container, and the on-disk shape of
\* each variable.
VariableNames == {"jeh", "rho"}
AttributeNames == {"length"}
OnDiskShape(name) == IF name = "jeh" THEN <<2, 1>> ELSE <<1, 1>>

NoCall ==
    [op |-> "none", h |-> 0, outcome |-> "none", calls |-> <<>>,
     sessionWasClosed |-> FALSE, handleWasClosed |-> FALSE]

Call(op, h, outcome, calls) ==
    [op |-> op, h |-> h, outcome |-> outcome, calls |-> calls,
     sessionWasClosed |-> ~file.engine,
     handleWasClosed |-> IF h = 0 THEN FALSE ELSE ~handles[h].var]

\* File.__init__ has run: the io is declared, the engine open, no Variable
\* issued.  engine, io: whether the attribute holds an object (TRUE) or
\* None.  open_vars: the dict _open_vars, name -> index into handles.
\* alive: __del__ has not run.
FileInit ==
    /\ file = [engine |-> TRUE, io |-> TRUE, open_vars |-> <<>>, alive |-> TRUE]
    /\ handles = <<>>
    /\ eng = [open |-> TRUE, closes |-> 0, removes |-> 0]
    /\ last = NoCall

\* The same variables in the specifications that have no File of this kind.
FileIdle ==
    /\ file = [engine |-> FALSE, io |-> FALSE, open_vars |-> <<>>, alive |-> FALSE]
    /\ handles = <<>>
    /\ eng = [open |-> FALSE, closes |-> 0, removes |-> 0]
    /\ last = NoCall

\* File.get_variable(name): on a closed File self._io is None and the
\* attribute lookup on it is an AttributeError.
FileGetVariable ==
    /\ file.alive
    /\ Len(handles) < MaxHandles
    /\ \E name \in VariableNames :
         IF ~file.io
         THEN /\ last' = Call("get_variable", 0, "AttributeError", <<>>)
              /\ UNCHANGED <<file, handles, eng>>
         ELSE /\ handles' = Append(handles,
                                   [name |-> name, var |-> TRUE,
                                    shape |-> VarShape(OnDiskShape(name))])
              /\ file' = [file EXCEPT
                            !.open_vars = DictSet(@, name, Len(handles) + 1)]
              /\ last' = Call("get_variable", 0, "ok", GetVariableCalls)
              /\ UNCHANGED eng
    /\ UNCHANGED <<idxvars, catvars, storevars>>

\* File.get_attribute(name)
FileGetAttribute ==
    /\ file.alive
    /\ \E name \in AttributeNames :
         IF ~file.io
         THEN last' = Call("get_attribute", 0, "AttributeError", <<>>)
         ELSE last' = Call("get_attribute", 0, "ok", GetAttributeCalls)
    /\ UNCHANGED <<file, handles, eng, idxvars, catvars, storevars>>

\* The tuples the handles of a File are indexed with here.
HandleArgs == {<<>>, <<IntSel(0)>>, <<FullSlice, IntSel(-1)>>}

\* var[args] on an issued Variable.  A Variable that was never closed but
\* whose File is closed still holds its adios2 variable and engine: the
\* calls are made, on objects the library has destroyed, and what they
\* do is the library's (an error, or a read of whatever is there).
VariableGetItemOf ==
    \E h \in 1..Len(handles), args \in HandleArgs :
        LET r == GetItem(OnDiskShape(handles[h].name), handles[h].shape,
                         handles[h].var, args)
        IN /\ IF r.calls # <<>> /\ ~eng.open
              THEN \E o \in {<<"ok", <<"set_selection", "get">>>>,
                             <<"EngineError", <<"set_selection", "get">>>>,
                             <<"EngineError", <<"set_selection">>>>} :
                      last' = Call("getitem", h, o[1], o[2])
              ELSE last' = Call("getitem", h, r.outcome,
                                [c \in 1..Len(r.calls) |-> r.calls[c].op])
           /\ UNCHANGED <<file, handles, eng, idxvars, catvars, storevars>>

\* Variable.close()
VariableClose ==
    \E h \in 1..Len(handles) :
        /\ handles' = [handles EXCEPT ![h].var = FALSE]
        /\ last' = Call("var_close", h, "ok", <<>>)
        /\ UNCHANGED <<file, eng, idxvars, catvars, storevars>>

\* The Variables File.close reaches: the values of _open_vars.
Tracked(h) == \E k \in DOMAIN file.open_vars : file.open_vars[k] = h

\* File.close(): the tracked Variables are closed; then self._engine.close()
\* which, on a File already closed, is an attribute lookup on None.
CloseBody(op) ==
    /\ handles' = [h \in 1..Len(handles) |->
                     IF Tracked(h) THEN [handles[h] EXCEPT !.var = FALSE]
                     ELSE handles[h]]
    /\ IF ~file.engine
       THEN /\ last' = Call(op, 0, "AttributeError", <<>>)
            /\ UNCHANGED eng
            /\ file' = file
       ELSE /\ eng' = [open |-> FALSE, closes |-> eng.closes + 1,
                       removes |-> eng.removes + 1]
            /\ file' = [file EXCEPT !.engine = FALSE, !.io = FALSE]
            /\ last' = Call(op, 0, "ok", <<"close", "remove_io">>)

FileClose ==
    /\ file.alive
    /\ CloseBody("close")
    /\ UNCHANGED <<idxvars, catvars, storevars>>

\* File.__exit__: self.close()
FileExit ==
    /\ file.alive
    /\ CloseBody("exit")
    /\ UNCHANGED <<idxvars, catvars, storevars>>

\* File.__del__: close() only if self._engine is set.  The object is gone
\* afterwards; the Variables it issued may live on.
FileDel ==
    /\ file.alive
    /\ IF file.engine
       THEN /\ handles' = [h \in 1..Len(handles) |->
                             IF Tracked(h) THEN [handles[h] EXCEPT !.var = FALSE]
                             ELSE handles[h]]
            /\ eng' = [open |-> FALSE, closes |-> eng.closes + 1,
                       removes |-> eng.removes + 1]
            /\ file' = [file EXCEPT !.engine = FALSE, !.io = FALSE,
                                    !.alive = FALSE]
            /\ last' = Call("del", 0, "ok", <<"close", "remove_io">>)
       ELSE /\ file' = [file EXCEPT !.alive = FALSE]
            /\ last' = Call("del", 0, "ok", <<>>)
            /\ UNCHANGED <<handles, eng>>
    /\ UNCHANGED <<idxvars, catvars, storevars>>

IdxIdle ==
    /\ rawShape = <<>>
    /\ varShape = <<>>
    /\ arrShape = <<>>
    /\ component = -1
    /\ res = NoResult

Init == FileInit /\ IdxIdle /\ CatIdle /\ StoreIdle

Next ==
    \/ FileGetVariable
    \/ FileGetAttribute
    \/ VariableGetItemOf
    \/ VariableClose
    \/ FileClose
    \/ FileExit
    \/ FileDel

Spec == Init /\ [][Next]_vars

CatalogInit == CatInit /\ IdxIdle /\ FileIdle /\ StoreIdle

SpecCatalog == CatalogInit /\ [][CatNext]_vars

StoresInit == StoreInit /\ IdxIdle /\ FileIdle /\ CatIdle

SpecStore == StoresInit /\ [][StoreNext]_vars

\* C4 as stated: after close() on a Variable, or on the File that issued
\* it, indexing that Variable fails with the "closed" error and makes no
\* engine call; after close() on the File, get_variable and get_attribute
\* fail with the "closed" error.
C4_UseAfterCloseRejected ==
    /\ (last.op = "getitem" /\ (last.handleWasClosed \/ last.sessionWasClosed))
          => (last.outcome = "closed" /\ last.calls = <<>>)
    /\ (last.op \in {"get_variable", "get_attribute"} /\ last.sessionWasClosed)
          => last.outcome = "closed"

\* C5 as stated: closing a File that is already closed (close, __exit__ or
\* __del__) does not fault, and the engine was closed once and the io
\* removed once.
C5_CloseIdempotent ==
    (last.op \in {"close", "exit", "del"} /\ last.sessionWasClosed)
        => (last.outcome = "ok" /\ eng.closes = 1 /\ eng.removes = 1)

\* C6 as stated: once the File is closed, every Variable it ever issued is
\* closed.
C6_CascadeClose ==
    ~file.engine => \A h \in 1..Len(handles) : ~handles[h].var

-----------------------------------------------------------------------------
(* Indexing a Variable: the state machine.                                 *)

RawShapes == SeqsOf(0..MaxExtent, 1, MaxRank)

ArgTuples == SeqsOf(Selectors, 0, MaxRank)

\* Variable.__init__ has run on a variable of some on-disk shape.
IndexInit ==
    /\ rawShape \in RawShapes
    /\ varShape = VarShape(rawShape)
    /\ arrShape = <<>>
    /\ component = -1
    /\ res = NoResult
    /\ FileIdle
    /\ CatIdle
    /\ StoreIdle

\* var[args] on an open handle.  A call reads nothing an earlier call
\* left behind, so a behaviour holds one call.
VariableGetItem ==
    /\ res.op = "none"
    /\ \E args \in ArgTuples :
          res' = GetItem(rawShape, varShape, TRUE, args)
    /\ UNCHANGED <<rawShape, varShape, arrShape, component>>
    /\ UNCHANGED <<filevars, catvars, storevars>>

IndexNext == VariableGetItem

SpecIndex == IndexInit /\ [][IndexNext]_vars


-----------------------------------------------------------------------------
(* Claims about Variable.__getitem__ (specification SpecIndex).            *)

AllPositive(shp) == \A i \in 1..Len(shp) : shp[i] >= 1

\* No selectors, or a full slice on every axis given one.
FullExtentRead(args, rank) ==
    /\ Len(args) \in {0, rank}
    /\ \A d \in 1..Len(args) : args[d] = FullSlice

\* The reported shape is the on-disk shape with its axes in reverse.
ShapeIsReversed ==
    /\ Len(varShape) = Len(rawShape)
    /\ \A i \in 1..Len(rawShape) : varShape[i] = rawShape[Len(rawShape) + 1 - i]

\* What set_selection receives is the computed per-logical-axis start and
\* count with the axes in reverse.
SelectionIsReversed ==
    \A c \in 1..Len(res.calls) :
        res.calls[c].op = "set_selection" =>
            LET n == Len(res.sel_start) IN
            /\ Len(res.calls[c].start) = n
            /\ Len(res.calls[c].count) = n
            /\ \A i \in 1..n :
                  /\ res.calls[c].start[i] = res.sel_start[n + 1 - i]
                  /\ res.calls[c].count[i] = res.sel_count[n + 1 - i]

\* A full-extent read asks the engine for the whole on-disk block and
\* returns an array of the reported shape.
FullReadReturnsShape ==
    /\ res.outcome = "ok"
    /\ res.arr_shape = varShape
    /\ res.calls[1].op = "set_selection"
    /\ res.calls[1].count = rawShape
    /\ \A i \in 1..Len(rawShape) : res.calls[1].start[i] = 0

\* C1 as stated: the reported shape is the reverse of the raw shape, every
\* selection handed to the engine is the reverse of the computed one, and a
\* full-extent read of ANY raw shape returns an array of the reported shape.
C1_AsStated ==
    /\ ShapeIsReversed
    /\ SelectionIsReversed
    /\ (res.op = "getitem" /\ FullExtentRead(res.args, Len(varShape)))
          => FullReadReturnsShape

\* C1 (amended): the same, the full-extent read being of a raw shape whose
\* extents are all positive.
C1_AxisReversalRoundTrip ==
    /\ ShapeIsReversed
    /\ SelectionIsReversed
    /\ (res.op = "getitem" /\ FullExtentRead(res.args, Len(varShape))
          /\ AllPositive(rawShape))
          => FullReadReturnsShape

\* A full slice on each of two axes of different positive extents was read.
C1_Witness ==
    /\ res.op = "getitem"
    /\ res.args = <<FullSlice, FullSlice>>
    /\ rawShape = <<1, 2>>
    /\ res.outcome = "ok"
    /\ res.arr_shape = <<2, 1>>

\* A selector the indexing contract allows on an axis of the given extent:
\* a scalar index inside the axis, or a forward step-1 slice that is not
\* empty.
ValidSelector(sel, extent) ==
    \/ /\ sel.kind \in {"int", "intlike"}
       /\ (IF sel.val < 0 THEN sel.val + extent ELSE sel.val) \in 0..(extent - 1)
    \/ /\ sel.kind = "slice"
       /\ sel.step \in {None, <<1>>}
       /\ SliceIndices(sel, extent).stop > SliceIndices(sel, extent).start

SomeSelectorInvalid(args, shape) ==
    \E d \in 1..Len(args) :
        \/ d > Len(shape)
        \/ ~ValidSelector(args[d], shape[d])

RaisedByGetItem == {"AssertionError", "RuntimeError", "TypeError", "ValueError",
                    "IndexError"}

\* C3 as stated: a tuple with a selector that is neither an in-range scalar
\* index nor a non-empty step-1 slice fails before any engine call.
C3_ValidateThenExecute ==
    (res.op = "getitem" /\ SomeSelectorInvalid(res.args, varShape))
        => /\ res.outcome \in RaisedByGetItem
           /\ res.calls = <<>>


-----------------------------------------------------------------------------
(* PscAdios2Array: one component of a 4-d raw variable as a 3-d array.     *)

\* PscAdios2Array.__init__: self.shape = array.shape[:-1]
PublicShape(shape) == SubSeq(shape, 1, Len(shape) - 1)

\* PscAdios2Array._getitem: the tuple handed to Variable.__getitem__ is
\* (*args, self._component).
ComponentKey(key, c) == key \o <<IntSel(c)>>

\* The per-axis selectors of xarray's basic indexer over the public shape:
\* ints and slices, one per axis.
KeySelectors ==
    { FullSlice, IntSel(0), IntSel(-1),
      SliceSel(<<0>>, <<1>>, None), SliceSel(<<1>>, <<MaxExtent>>, <<1>>) }

Keys == [1..(FieldRank - 1) -> KeySelectors]

\* A PscAdios2Array has been constructed over a raw variable of some
\* on-disk shape, with a component offset taken from the catalog.
ArrayInit ==
    /\ rawShape \in [1..FieldRank -> 0..MaxExtent]
    /\ varShape = VarShape(rawShape)
    /\ arrShape = PublicShape(VarShape(rawShape))
    /\ component \in 0..MaxExtent
    /\ res = NoResult
    /\ FileIdle
    /\ CatIdle
    /\ StoreIdle

\* PscAdios2Array._getitem(key): get_array() makes a fresh Variable (its
\* shape queried again) and indexes it.
ArrayGetItem ==
    /\ res.op = "none"
    /\ \E key \in Keys :
          res' = GetItem(rawShape, VarShape(rawShape), TRUE,
                         ComponentKey(key, component))
    /\ varShape' = VarShape(rawShape)
    /\ UNCHANGED <<rawShape, arrShape, component>>
    /\ UNCHANGED <<filevars, catvars, storevars>>

ArrayNext == ArrayGetItem

SpecArray == ArrayInit /\ [][ArrayNext]_vars

FullKey == [d \in 1..(FieldRank - 1) |-> FullSlice]

\* The array read is the raw data at the component: element (i, j, l) is
\* the on-disk element (c, l, j, i), and the shape is (x, y, z).
ComponentExtracted ==
    /\ res.outcome = "ok"
    /\ Len(res.arr_shape) = Len(rawShape) - 1
    /\ res.arr_shape = <<rawShape[4], rawShape[3], rawShape[2]>>
    /\ res.arr_shape = arrShape
    /\ DOMAIN res.arr = Indices(arrShape)
    /\ \A j \in DOMAIN res.arr : res.arr[j] = <<component, j[3], j[2], j[1]>>

\* The public shape is the raw variable's logical shape without its last axis.
PublicShapeDropsLastAxis ==
    arrShape = <<rawShape[4], rawShape[3], rawShape[2]>>

\* C2 as stated: for every raw variable of logical shape (x,y,z,k) and every
\* component 0 <= c < k, the read with full-range selectors returns the
\* (x,y,z) array of the raw data at index c of the trailing axis.
C2_AsStated ==
    /\ PublicShapeDropsLastAxis
    /\ (res.op = "getitem" /\ res.args = ComponentKey(FullKey, component)
          /\ component < rawShape[1])
          => ComponentExtracted

\* C2 (amended): the same, for x, y and z all positive.
C2_ComponentExtraction ==
    /\ PublicShapeDropsLastAxis
    /\ (res.op = "getitem" /\ res.args = ComponentKey(FullKey, component)
          /\ component < rawShape[1] /\ AllPositive(arrShape))
          => ComponentExtracted

\* The second of two components was read from a (2,2,1,2) variable.
C2_Witness ==
    /\ res.op = "getitem"
    /\ res.args = ComponentKey(FullKey, component)
    /\ component = 1
    /\ rawShape = <<2, 1, 2, 2>>
    /\ res.outcome = "ok"
    /\ res.arr[<<1, 0, 0>>] = <<1, 0, 0, 1>>

=============================================================================
